---- MODULE Spec2Model ----
(***************************************************************************)
(* Model of auto_note_server: an HTTP backend with two protected routes,   *)
(* POST /transcribe (uploadHandler) and POST /summarize                    *)
(* (handleSummaryRequest), the completion client getAIResponse and the     *)
(* string escaper sanitizeInput.                                           *)
(*                                                                         *)
(* A Go string is modelled as a sequence of byte values (Naturals): the    *)
(* texts the handlers write are the byte sequences of the string literals  *)
(* in the source, so that a response body can be parsed back as JSON.      *)
(***************************************************************************)
EXTENDS Naturals, Sequences, FiniteSets, TLC

VARIABLES
    disk,      \* names of the scratch files present in the temp directory
    open,      \* file handles currently open: <<name, owner>>
    nextTmp,   \* the next unique suffix os.CreateTemp hands out
    route,     \* route of the request handled last ("none" before the first)
    req,       \* that request, with the outcomes of the calls it made
    status,    \* HTTP status written for it
    body,      \* response body written for it
    events,    \* the calls the handler made for it, in order
    input,     \* sanitizeInput harness: the string under test
    output,    \* sanitizeInput harness: result of the latest application
    previous,  \* sanitizeInput harness: result of the application before
    applied,   \* sanitizeInput harness: number of applications so far
    pc,        \* main: the statement it is at
    env,       \* the environment once godotenv.Load has run: key -> value
    assemblyApiKey,  \* package variable assemblyApiKey
    groqApiKey,      \* package variable groqApiKey
    clerkKey,  \* the key clerk.SetKey was given ("" before)
    routes,    \* the patterns registered on the mux
    exitCode   \* status of the process once pc = "exited"

vars == <<disk, open, nextTmp, route, req, status, body, events,
          input, output, previous, applied,
          pc, env, assemblyApiKey, groqApiKey, clerkKey, routes, exitCode>>

serverVars == <<disk, open, nextTmp, route, req, status, body, events>>

harnessVars == <<input, output, previous, applied>>

startupVars ==
    <<pc, env, assemblyApiKey, groqApiKey, clerkKey, routes, exitCode>>

----------------------------------------------------------------------------
\* Bounds

\* longest string handed to the sanitizeInput harness
MaxLen == 3

\* longest text a provider returns to a handler
MaxTextLen == 1

\* number of scratch files os.CreateTemp is asked for in one run
MaxTmp == 3

----------------------------------------------------------------------------
\* Bytes the source names

Backslash == 92

LF == 10

TAB == 9

CR == 13

FF == 12

Quote == 34

\* A control byte that has no escape of its own (0x01), as a sample of the
\* class [\x00-\x08\x0B\x0C\x0E-\x1F].
Ctl == 1

\* The bytes strings are drawn from: the five escaped bytes, the double
\* quote, a bare control byte, and the letters a and n.
Alphabet == {Backslash, LF, TAB, CR, FF, Quote, Ctl, 97, 110}

RECURSIVE StringsUpTo(_)
StringsUpTo(n) ==
    IF n = 0 THEN {<<>>}
    ELSE LET shorter == StringsUpTo(n - 1)
         IN  shorter \cup {Append(s, c) : s \in shorter, c \in Alphabet}

----------------------------------------------------------------------------
\* String literals of the source, as byte sequences

\* BodyUnauthorized: the text  {"access": "unauthorized"}
BodyUnauthorized ==
    <<123, 34, 97, 99, 99, 101, 115, 115, 34, 58, 32, 34, 117, 110, 97, 117, 116, 104, 111, 114, 105, 122, 101, 100, 34, 125>>
\* BodyInternalServerError: the text  {"access": "internal server error"}
BodyInternalServerError ==
    <<123, 34, 97, 99, 99, 101, 115, 115, 34, 58, 32, 34, 105, 110, 116, 101, 114, 110, 97, 108, 32, 115, 101, 114, 118, 101, 114, 32, 101, 114, 114, 111, 114, 34, 125>>
\* BodyForbidden: the text  {"access": "forbidden"}
BodyForbidden ==
    <<123, 34, 97, 99, 99, 101, 115, 115, 34, 58, 32, 34, 102, 111, 114, 98, 105, 100, 100, 101, 110, 34, 125>>
\* TranscriptPrefix: the text  {"status": "success", "transcript": "
TranscriptPrefix ==
    <<123, 34, 115, 116, 97, 116, 117, 115, 34, 58, 32, 34, 115, 117, 99, 99, 101, 115, 115, 34, 44, 32, 34, 116, 114, 97, 110, 115, 99, 114, 105, 112, 116, 34, 58, 32, 34>>
\* SummaryPrefix: the text  {"status": "success", "summary": "
SummaryPrefix ==
    <<123, 34, 115, 116, 97, 116, 117, 115, 34, 58, 32, 34, 115, 117, 99, 99, 101, 115, 115, 34, 44, 32, 34, 115, 117, 109, 109, 97, 114, 121, 34, 58, 32, 34>>
\* BodySuffix: the text  "}
BodySuffix ==
    <<34, 125>>
\* MsgInvalidJSONBody: the text  Invalid JSON body
MsgInvalidJSONBody ==
    <<73, 110, 118, 97, 108, 105, 100, 32, 74, 83, 79, 78, 32, 98, 111, 100, 121>>
\* MsgNoTranscript: the text  No transcript provided
MsgNoTranscript ==
    <<78, 111, 32, 116, 114, 97, 110, 115, 99, 114, 105, 112, 116, 32, 112, 114, 111, 118, 105, 100, 101, 100>>
\* MsgNoResponse: the text  no response from AI
MsgNoResponse ==
    <<110, 111, 32, 114, 101, 115, 112, 111, 110, 115, 101, 32, 102, 114, 111, 109, 32, 65, 73>>
\* MsgUnexpectedStatus: the text  unexpected status code: 
MsgUnexpectedStatus ==
    <<117, 110, 101, 120, 112, 101, 99, 116, 101, 100, 32, 115, 116, 97, 116, 117, 115, 32, 99, 111, 100, 101, 58, 32>>
\* MsgCommaSpace: the text  , 
MsgCommaSpace ==
    <<44, 32>>
\* ErrMissingFile: the text  http: no such file
ErrMissingFile ==
    <<104, 116, 116, 112, 58, 32, 110, 111, 32, 115, 117, 99, 104, 32, 102, 105, 108, 101>>
\* ErrNotMultipart: the text  request Content-Type isn't multipart/form-data
ErrNotMultipart ==
    <<114, 101, 113, 117, 101, 115, 116, 32, 67, 111, 110, 116, 101, 110, 116, 45, 84, 121, 112, 101, 32, 105, 115, 110, 39, 116, 32, 109, 117, 108, 116, 105, 112, 97, 114, 116, 47, 102, 111, 114, 109, 45, 100, 97, 116, 97>>
\* KeyAccess: the text  access
KeyAccess ==
    <<97, 99, 99, 101, 115, 115>>
\* KeyStatus: the text  status
KeyStatus ==
    <<115, 116, 97, 116, 117, 115>>
\* KeyTranscript: the text  transcript
KeyTranscript ==
    <<116, 114, 97, 110, 115, 99, 114, 105, 112, 116>>
\* KeySummary: the text  summary
KeySummary ==
    <<115, 117, 109, 109, 97, 114, 121>>
\* KeyText: the text  text
KeyText ==
    <<116, 101, 120, 116>>
\* ValSuccess: the text  success
ValSuccess ==
    <<115, 117, 99, 99, 101, 115, 115>>
\* ValInternalServerError: the text  internal server error
ValInternalServerError ==
    <<105, 110, 116, 101, 114, 110, 97, 108, 32, 115, 101, 114, 118, 101, 114, 32, 101, 114, 114, 111, 114>>
\* ReqTextA: the text  {"text": "a"}
ReqTextA ==
    <<123, 34, 116, 101, 120, 116, 34, 58, 32, 34, 97, 34, 125>>
\* ReqTextEmpty: the text  {"text": ""}
ReqTextEmpty ==
    <<123, 34, 116, 101, 120, 116, 34, 58, 32, 34, 34, 125>>
\* ReqNoText: the text  {"txt": "a"}
ReqNoText ==
    <<123, 34, 116, 120, 116, 34, 58, 32, 34, 97, 34, 125>>
\* ReqEmptyObject: the text  {}
ReqEmptyObject ==
    <<123, 125>>
\* ReqTruncated: the text  {"text": "a"
ReqTruncated ==
    <<123, 34, 116, 101, 120, 116, 34, 58, 32, 34, 97, 34>>
\* ReqTrailing: the text  {"text": "an"} a
ReqTrailing ==
    <<123, 34, 116, 101, 120, 116, 34, 58, 32, 34, 97, 110, 34, 125, 32, 97>>
\* ReqNotJSON: the text  a
ReqNotJSON ==
    <<97>>

----------------------------------------------------------------------------
\* String helpers of the Go runtime, as the code uses them

\* strings.ReplaceAll(s, old, new) for a one-byte old
RECURSIVE ReplaceAll(_, _, _)
ReplaceAll(s, old, new) ==
    IF s = <<>> THEN <<>>
    ELSE (IF Head(s) = old THEN new ELSE <<Head(s)>>)
             \o ReplaceAll(Tail(s), old, new)

\* the character class [\x00-\x08\x0B\x0C\x0E-\x1F] of sanitizeInput's regex
MatchesControlClass(c) ==
    \/ c <= 8
    \/ c = 11
    \/ c = 12
    \/ (14 <= c /\ c <= 31)

\* re.ReplaceAllString(s, "") for that one-byte class
RECURSIVE StripControl(_)
StripControl(s) ==
    IF s = <<>> THEN <<>>
    ELSE (IF MatchesControlClass(Head(s)) THEN <<>> ELSE <<Head(s)>>)
             \o StripControl(Tail(s))

\* sanitizeInput without the backslash replacement of its first line
sanitizeInputNoBackslash(s) ==
    LET s2 == ReplaceAll(s, LF, <<Backslash, 110>>)
        s3 == ReplaceAll(s2, TAB, <<Backslash, 116>>)
        s4 == ReplaceAll(s3, CR, <<Backslash, 114>>)
        s5 == ReplaceAll(s4, FF, <<Backslash, 102>>)
    IN  StripControl(s5)

sanitizeInput(s) ==
    LET s1 == ReplaceAll(s, Backslash, <<Backslash, Backslash>>)
        s2 == ReplaceAll(s1, LF, <<Backslash, 110>>)
        s3 == ReplaceAll(s2, TAB, <<Backslash, 116>>)
        s4 == ReplaceAll(s3, CR, <<Backslash, 114>>)
        s5 == ReplaceAll(s4, FF, <<Backslash, 102>>)
    IN  StripControl(s5)

\* fmt's %d for a non-negative int
RECURSIVE Decimal(_)
Decimal(n) ==
    IF n < 10 THEN <<48 + n>>
    ELSE Append(Decimal(n \div 10), 48 + (n % 10))

\* fmt.Fprintln(w, s) and http.Error's body: the text and a newline
Fprintln(s) == Append(s, LF)

----------------------------------------------------------------------------
\* encoding/json, restricted to what the bodies here need: one object whose
\* members are strings.  A number, literal, array or nested object as a
\* value, and the \uXXXX escape, are rejected (no body of this model holds
\* one).  stream = TRUE is json.Decoder.Decode, which stops after the first
\* value; stream = FALSE is a parse of the whole text.

IsSpace(c) == c \in {32, TAB, LF, CR}

\* the byte an escape letter stands for; 0 when the letter starts no escape
Unescape(c) ==
    CASE c = Quote     -> Quote
      [] c = Backslash -> Backslash
      [] c = 47        -> 47
      [] c = 98        -> 8
      [] c = 102       -> FF
      [] c = 110       -> LF
      [] c = 114       -> CR
      [] c = 116       -> TAB
      [] OTHER         -> 0

\* the scanner's state: where it is in the object, the key and the value it
\* is reading, and the members read so far
Scanner(st, key, val, members) ==
    [st |-> st, key |-> key, val |-> val, members |-> members]

\* one byte c read in state p; "error" and, for a stream, "end" take no more
Step(p, c, stream) ==
    LET at(st) == Scanner(st, p.key, p.val, p.members)
        Rejected == at("error")
    IN
    CASE p.st = "error" -> p
      [] p.st = "start" ->
            IF IsSpace(c) THEN p
            ELSE IF c = 123 THEN at("first")
            ELSE Rejected
      [] p.st = "first" ->
            IF IsSpace(c) THEN p
            ELSE IF c = Quote THEN Scanner("inkey", <<>>, p.val, p.members)
            ELSE IF c = 125 THEN at("end")
            ELSE Rejected
      [] p.st = "key" ->
            IF IsSpace(c) THEN p
            ELSE IF c = Quote THEN Scanner("inkey", <<>>, p.val, p.members)
            ELSE Rejected
      [] p.st = "inkey" ->
            IF c = Quote THEN at("colon")
            ELSE IF c = Backslash THEN at("keyesc")
            ELSE IF c < 32 THEN Rejected
            ELSE Scanner("inkey", Append(p.key, c), p.val, p.members)
      [] p.st = "keyesc" ->
            IF Unescape(c) = 0 THEN Rejected
            ELSE Scanner("inkey", Append(p.key, Unescape(c)), p.val, p.members)
      [] p.st = "colon" ->
            IF IsSpace(c) THEN p
            ELSE IF c = 58 THEN at("value")
            ELSE Rejected
      [] p.st = "value" ->
            IF IsSpace(c) THEN p
            ELSE IF c = Quote THEN Scanner("inval", p.key, <<>>, p.members)
            ELSE Rejected
      [] p.st = "inval" ->
            IF c = Quote
            THEN Scanner("after", p.key, p.val,
                         Append(p.members, <<p.key, p.val>>))
            ELSE IF c = Backslash THEN at("valesc")
            ELSE IF c < 32 THEN Rejected
            ELSE Scanner("inval", p.key, Append(p.val, c), p.members)
      [] p.st = "valesc" ->
            IF Unescape(c) = 0 THEN Rejected
            ELSE Scanner("inval", p.key, Append(p.val, Unescape(c)), p.members)
      [] p.st = "after" ->
            IF IsSpace(c) THEN p
            ELSE IF c = 44 THEN at("key")
            ELSE IF c = 125 THEN at("end")
            ELSE Rejected
      [] p.st = "end" ->
            IF stream \/ IsSpace(c) THEN p ELSE Rejected
      [] OTHER -> Rejected

\* the scanner run over s[lo..hi] from state p: the bytes are read left to
\* right, and nothing is read past an error (halving keeps the evaluation
\* shallow)
RECURSIVE Scan(_, _, _, _, _)
Scan(s, lo, hi, p, stream) ==
    IF lo > hi THEN p
    ELSE IF lo = hi THEN Step(p, s[lo], stream)
    ELSE LET mid == (lo + hi) \div 2
             left == Scan(s, lo, mid, p, stream)
         IN  IF left.st = "error" THEN left
             ELSE Scan(s, mid + 1, hi, left, stream)

ParseObject(s, stream) ==
    LET p == Scan(s, 1, Len(s), Scanner("start", <<>>, <<>>, <<>>), stream)
    IN  IF p.st = "end" THEN [ok |-> TRUE, members |-> p.members]
        ELSE [ok |-> FALSE, members |-> <<>>]

HasMember(obj, key) == \E k \in 1..Len(obj.members) : obj.members[k][1] = key

\* the value of the last member named key (the one encoding/json keeps);
\* the empty string when the object has no such member
Member(obj, key) ==
    IF ~HasMember(obj, key) THEN <<>>
    ELSE LET K == {k \in 1..Len(obj.members) : obj.members[k][1] = key}
             last == CHOOSE k \in K : \A j \in K : j <= k
         IN  obj.members[last][2]

----------------------------------------------------------------------------
\* Error texts the environment hands back (samples: the code copies
\* err.Error() into the response whatever it is)

\* ErrNoSpace: the text  no space left on device
ErrNoSpace ==
    <<110, 111, 32, 115, 112, 97, 99, 101, 32, 108, 101, 102, 116, 32, 111, 110, 32, 100, 101, 118, 105, 99, 101>>
\* ErrNoSuchFile: the text  no such file or directory
ErrNoSuchFile ==
    <<110, 111, 32, 115, 117, 99, 104, 32, 102, 105, 108, 101, 32, 111, 114, 32, 100, 105, 114, 101, 99, 116, 111, 114, 121>>
\* ErrTranscribe: the text  transcription failed
ErrTranscribe ==
    <<116, 114, 97, 110, 115, 99, 114, 105, 112, 116, 105, 111, 110, 32, 102, 97, 105, 108, 101, 100>>
\* ErrTransport: the text  connection refused
ErrTransport ==
    <<99, 111, 110, 110, 101, 99, 116, 105, 111, 110, 32, 114, 101, 102, 117, 115, 101, 100>>
\* ErrUnexpectedEOF: the text  unexpected EOF
ErrUnexpectedEOF ==
    <<117, 110, 101, 120, 112, 101, 99, 116, 101, 100, 32, 69, 79, 70>>
\* ErrSyntax: the text  invalid character 'a' looking for beginning of value
ErrSyntax ==
    <<105, 110, 118, 97, 108, 105, 100, 32, 99, 104, 97, 114, 97, 99, 116, 101, 114, 32, 39, 97, 39, 32, 108, 111, 111, 107, 105, 110, 103, 32, 102, 111, 114, 32, 98, 101, 103, 105, 110, 110, 105, 110, 103, 32, 111, 102, 32, 118, 97, 108, 117, 101>>
\* BodyRepr: the text  &{}
BodyRepr ==
    <<38, 123, 125>>

----------------------------------------------------------------------------
\* Requests and the outcomes of the calls a handler makes while serving them

\* texts a provider can return
Texts == StringsUpTo(MaxTextLen)

\* r.FormFile("uploadfile"): the field is there, is missing, or the request
\* is no multipart form
FormOutcomes == {"ok", "missing", "notmultipart"}

\* user.Get(ctx, claims.Subject): the lookup fails, or it returns a user
\* whose Banned flag is set or clear
LookupOutcomes == {"error", "banned", "active"}

UploadRequest(h, l, f, c, cp, o, t, x) ==
    [hasClaims |-> h, lookup |-> l, form |-> f, createOK |-> c,
     copyOK |-> cp, openOK |-> o, transcribeOK |-> t, text |-> x]

\* The requests to POST /transcribe.  The credential and the user record
\* vary freely; past the authentication block a call has an outcome only if
\* the calls before it succeeded (a call that is never made has none).
UploadRequests ==
    {UploadRequest(h, l, "ok", TRUE, TRUE, TRUE, TRUE, <<>>) :
        h \in BOOLEAN, l \in LookupOutcomes}
    \cup {UploadRequest(TRUE, "active", f, TRUE, TRUE, TRUE, TRUE, <<>>) :
        f \in FormOutcomes}
    \cup {UploadRequest(TRUE, "active", "ok", FALSE, TRUE, TRUE, TRUE, <<>>),
          UploadRequest(TRUE, "active", "ok", TRUE, FALSE, TRUE, TRUE, <<>>),
          UploadRequest(TRUE, "active", "ok", TRUE, TRUE, FALSE, TRUE, <<>>),
          UploadRequest(TRUE, "active", "ok", TRUE, TRUE, TRUE, FALSE, <<>>)}
    \cup {UploadRequest(TRUE, "active", "ok", TRUE, TRUE, TRUE, TRUE, x) :
        x \in Texts}

\* bodies of POST /summarize
RequestBodies ==
    {ReqTextA, ReqTextEmpty, ReqNoText, ReqEmptyObject, ReqTruncated,
     ReqTrailing, ReqNotJSON, <<>>}

\* the choices of a completion reply: none, one, or two
ChoiceLists ==
    {<<>>} \cup {<<t>> : t \in Texts}
           \cup {<<t, u>> : t \in Texts, u \in {<<>>, <<110>>}}

\* the POST never gets an answer
TransportFailure ==
    [transportOK |-> FALSE, code |-> 0, readOK |-> TRUE, jsonOK |-> TRUE,
     choices |-> <<>>]

\* what the completion provider does with the POST: the transport fails, or
\* it answers with a status code and a body that can be read or not, is
\* well-formed JSON or not, and holds a list of choices
Replies ==
    {TransportFailure}
    \cup {[transportOK |-> TRUE, code |-> c, readOK |-> TRUE, jsonOK |-> TRUE,
           choices |-> <<>>] : c \in {401, 429, 500}}
    \cup {[transportOK |-> TRUE, code |-> 200, readOK |-> FALSE,
           jsonOK |-> TRUE, choices |-> <<>>]}
    \cup {[transportOK |-> TRUE, code |-> 200, readOK |-> TRUE,
           jsonOK |-> FALSE, choices |-> <<>>]}
    \cup {[transportOK |-> TRUE, code |-> 200, readOK |-> TRUE,
           jsonOK |-> TRUE, choices |-> cs] : cs \in ChoiceLists}

\* a reply with one empty choice, for requests that never reach the provider
NoReply ==
    [transportOK |-> TRUE, code |-> 200, readOK |-> TRUE, jsonOK |-> TRUE,
     choices |-> <<<<>>>>]

SummaryRequest(h, l, b, rep) ==
    [hasClaims |-> h, lookup |-> l, raw |-> b, reply |-> rep]

\* The requests to POST /summarize: the credential, the user record and the
\* body vary freely, and so does the provider's reply.
SummaryRequests ==
    {SummaryRequest(h, l, ReqTextA, NoReply) :
        h \in BOOLEAN, l \in LookupOutcomes}
    \cup {SummaryRequest(TRUE, "active", b, rep) :
        b \in RequestBodies, rep \in {NoReply, TransportFailure}}
    \cup {SummaryRequest(TRUE, "active", b, rep) :
        b \in {ReqTextA, ReqTrailing}, rep \in Replies}

\* a stage that wrote the response and returned
Respond(code, text, evs) ==
    [done |-> TRUE, status |-> code, body |-> text, events |-> evs]

\* a stage that fell through to the next one
Continue(evs) ==
    [done |-> FALSE, status |-> 0, body |-> <<>>, events |-> evs]

----------------------------------------------------------------------------
\* uploadHandler

\* the authentication block with the user lookup made before the claims
\* are checked
UploadAuthLookupFirst(r) ==
    IF r.lookup = "error"
    THEN Respond(500, BodyInternalServerError,
                 <<"clerk.SessionClaimsFromContext", "user.Get">>)
    ELSE IF ~r.hasClaims
    THEN Respond(401, BodyUnauthorized,
                 <<"clerk.SessionClaimsFromContext", "user.Get">>)
    ELSE IF r.lookup = "banned"
    THEN Respond(403, BodyForbidden,
                 <<"clerk.SessionClaimsFromContext", "user.Get", "usr.Banned">>)
    ELSE Continue(<<"clerk.SessionClaimsFromContext", "user.Get", "usr.Banned">>)

\* the authentication block with the lookup error dropped
UploadAuthIgnoreLookupError(r) ==
    IF ~r.hasClaims
    THEN Respond(401, BodyUnauthorized, <<"clerk.SessionClaimsFromContext">>)
    ELSE IF r.lookup = "banned"
    THEN Respond(403, BodyForbidden,
                 <<"clerk.SessionClaimsFromContext", "user.Get", "usr.Banned">>)
    ELSE Continue(<<"clerk.SessionClaimsFromContext", "user.Get", "usr.Banned">>)

UploadAuth(r) ==
    IF ~r.hasClaims
    THEN Respond(401, BodyUnauthorized, <<"clerk.SessionClaimsFromContext">>)
    ELSE IF r.lookup = "error"
    THEN Respond(500, BodyInternalServerError,
                 <<"clerk.SessionClaimsFromContext", "user.Get">>)
    ELSE IF r.lookup = "banned"
    THEN Respond(403, BodyForbidden,
                 <<"clerk.SessionClaimsFromContext", "user.Get", "usr.Banned">>)
    ELSE Continue(<<"clerk.SessionClaimsFromContext", "user.Get", "usr.Banned">>)

\* err.Error() of r.FormFile
FormError(outcome) ==
    IF outcome = "missing" THEN ErrMissingFile ELSE ErrNotMultipart

\* handle of the multipart file of the request
FormHandle == <<0, "file">>

\* the file system a handler sees and leaves
FileSystem(d, o, n) == [disk |-> d, open |-> o, nextTmp |-> n]

\* os.CreateTemp("", "upload-*.tmp"): a file with a name no other has, open
\* for writing
CreateTemp(fs) ==
    FileSystem(fs.disk \cup {fs.nextTmp},
               fs.open \cup {<<fs.nextTmp, "tempFile">>},
               fs.nextTmp + 1)

\* (*os.File).Close: the handle goes, the file stays
Close(fs, handle) == FileSystem(fs.disk, fs.open \ {handle}, fs.nextTmp)

\* os.Open(fileName)
Open(fs, handle) == FileSystem(fs.disk, fs.open \cup {handle}, fs.nextTmp)

\* the ingestion block with the error of r.FormFile dropped
UploadIngestIgnoreFormError(r, fs) ==
    LET fs1 == Open(fs, FormHandle)
    IN
    IF ~r.createOK
    THEN Respond(500, Fprintln(ErrNoSpace), <<"r.FormFile", "os.CreateTemp">>)
             @@ [fs |-> fs1, deferred |-> <<FormHandle>>, name |-> 0]
    ELSE
    LET fs2 == CreateTemp(fs1)
        name == fs1.nextTmp
        held == <<FormHandle, <<name, "tempFile">>>>
    IN
    IF ~r.copyOK
    THEN Respond(500, Fprintln(ErrNoSpace),
                 <<"r.FormFile", "os.CreateTemp", "io.Copy">>)
             @@ [fs |-> fs2, deferred |-> held, name |-> name]
    ELSE Continue(<<"r.FormFile", "os.CreateTemp", "io.Copy">>)
             @@ [fs |-> fs2, deferred |-> held, name |-> name]

\* Upload ingestion: the form file, the scratch file, the copy.  deferred
\* lists the handles whose Close the function has deferred so far.
UploadIngest(r, fs) ==
    IF r.form # "ok"
    THEN Respond(400, Fprintln(FormError(r.form)), <<"r.FormFile">>)
             @@ [fs |-> fs, deferred |-> <<>>, name |-> 0]
    ELSE
    LET fs1 == Open(fs, FormHandle)
    IN
    IF ~r.createOK
    THEN Respond(500, Fprintln(ErrNoSpace), <<"r.FormFile", "os.CreateTemp">>)
             @@ [fs |-> fs1, deferred |-> <<FormHandle>>, name |-> 0]
    ELSE
    LET fs2 == CreateTemp(fs1)
        name == fs1.nextTmp
        held == <<FormHandle, <<name, "tempFile">>>>
    IN
    IF ~r.copyOK
    THEN Respond(500, Fprintln(ErrNoSpace),
                 <<"r.FormFile", "os.CreateTemp", "io.Copy">>)
             @@ [fs |-> fs2, deferred |-> held, name |-> name]
    ELSE Continue(<<"r.FormFile", "os.CreateTemp", "io.Copy">>)
             @@ [fs |-> fs2, deferred |-> held, name |-> name]

\* sendToAssemblyAI(fileName): opens the file again by name, hands it to
\* the transcription provider, and closes its own handle on return
sendToAssemblyAI(r, fs, name) ==
    IF ~r.openOK
    THEN [failed |-> TRUE, err |-> ErrNoSuchFile, text |-> <<>>, fs |-> fs,
          events |-> <<"os.Open">>]
    ELSE
    LET fs1 == Open(fs, <<name, "sendToAssemblyAI">>)
        fs2 == Close(fs1, <<name, "sendToAssemblyAI">>)
        evs == <<"os.Open", "TranscribeFromReader", "file.Close">>
    IN
    IF ~r.transcribeOK
    THEN [failed |-> TRUE, err |-> ErrTranscribe, text |-> <<>>, fs |-> fs2,
          events |-> evs]
    ELSE [failed |-> FALSE, err |-> <<>>, text |-> r.text, fs |-> fs2,
          events |-> evs]

\* the deferred Close calls, run when the handler returns, last deferred
\* first
RECURSIVE RunDeferred(_, _)
RunDeferred(fs, deferred) ==
    IF deferred = <<>> THEN fs
    ELSE RunDeferred(Close(fs, deferred[Len(deferred)]),
                     SubSeq(deferred, 1, Len(deferred) - 1))

\* what a handler leaves behind: the response, the calls, the file system
Outcome(code, text, evs, fs) ==
    [status |-> code, body |-> text, events |-> evs, fs |-> fs]

uploadHandler(r, fs) ==
    LET auth == UploadAuth(r)
    IN
    IF auth.done THEN Outcome(auth.status, auth.body, auth.events, fs)
    ELSE
    LET ing == UploadIngest(r, fs)
        evs == auth.events \o ing.events
    IN
    IF ing.done
    THEN Outcome(ing.status, ing.body, evs, RunDeferred(ing.fs, ing.deferred))
    ELSE
    LET sent == sendToAssemblyAI(r, ing.fs, ing.name)
        left == RunDeferred(sent.fs, ing.deferred)
    IN
    IF sent.failed
    THEN Outcome(500, Fprintln(sent.err), evs \o sent.events, left)
    ELSE Outcome(200,
                 Fprintln(TranscriptPrefix \o sent.text \o BodySuffix),
                 evs \o sent.events, left)

----------------------------------------------------------------------------
\* handleSummaryRequest

\* the authentication block without the ban check
SummaryAuthNoBanCheck(r) ==
    IF ~r.hasClaims
    THEN Respond(401, BodyUnauthorized, <<"clerk.SessionClaimsFromContext">>)
    ELSE IF r.lookup = "error"
    THEN Respond(500, BodyInternalServerError,
                 <<"clerk.SessionClaimsFromContext", "user.Get">>)
    ELSE Continue(<<"clerk.SessionClaimsFromContext", "user.Get">>)

SummaryAuth(r) ==
    IF ~r.hasClaims
    THEN Respond(401, BodyUnauthorized, <<"clerk.SessionClaimsFromContext">>)
    ELSE IF r.lookup = "error"
    THEN Respond(500, BodyInternalServerError,
                 <<"clerk.SessionClaimsFromContext", "user.Get">>)
    ELSE IF r.lookup = "banned"
    THEN Respond(403, BodyForbidden,
                 <<"clerk.SessionClaimsFromContext", "user.Get", "usr.Banned">>)
    ELSE Continue(<<"clerk.SessionClaimsFromContext", "user.Get", "usr.Banned">>)

\* the decoding block without the test for an empty transcript
SummaryDecodeNoEmptyCheck(r) ==
    LET obj == ParseObject(r.raw, TRUE)
    IN
    IF ~obj.ok
    THEN Respond(400, Fprintln(MsgInvalidJSONBody), <<"json.Decode">>)
             @@ [transcript |-> <<>>]
    ELSE Continue(<<"json.Decode">>) @@ [transcript |-> Member(obj, KeyText)]

\* json.NewDecoder(r.Body).Decode(&requestData) and the test of the text:
\* a member the body does not have leaves requestData.Text empty
SummaryDecode(r) ==
    LET obj == ParseObject(r.raw, TRUE)
        transcript == Member(obj, KeyText)
    IN
    IF ~obj.ok
    THEN Respond(400, Fprintln(MsgInvalidJSONBody), <<"json.Decode">>)
             @@ [transcript |-> <<>>]
    ELSE IF transcript = <<>>
    THEN Respond(400, Fprintln(MsgNoTranscript), <<"json.Decode">>)
             @@ [transcript |-> <<>>]
    ELSE Continue(<<"json.Decode">>) @@ [transcript |-> transcript]

\* the prompt sent to the completion provider
Prompt(transcript) == [prefix |-> "promptPrefix", transcript |-> transcript]

\* a result of getAIResponse: (content, nil) or ("", err)
Result(content) ==
    [failed |-> FALSE, content |-> content, err |-> <<>>,
     events |-> <<"client.Do">>]

Failure(err) ==
    [failed |-> TRUE, content |-> <<>>, err |-> err,
     events |-> <<"client.Do">>]

\* getAIResponse without the test for an empty list of choices
getAIResponseNoChoiceCheck(prompt, reply) ==
    IF ~reply.transportOK THEN Failure(ErrTransport)
    ELSE IF reply.code # 200
    THEN Failure(MsgUnexpectedStatus \o Decimal(reply.code)
                     \o MsgCommaSpace \o BodyRepr)
    ELSE IF ~reply.readOK THEN Failure(ErrUnexpectedEOF)
    ELSE IF ~reply.jsonOK THEN Failure(ErrSyntax)
    ELSE IF Len(reply.choices) = 0 THEN Result(<<>>)
    ELSE Result(reply.choices[1])

\* getAIResponse(prompt): one client.Do of one POST request; json.Marshal
\* of a map of strings and http.NewRequest with a constant method and URL
\* cannot fail and are left out.  BodyRepr stands for what %s prints for
\* resp.Body, a reader and not the text of the body.
getAIResponse(prompt, reply) ==
    IF ~reply.transportOK THEN Failure(ErrTransport)
    ELSE IF reply.code # 200
    THEN Failure(MsgUnexpectedStatus \o Decimal(reply.code)
                     \o MsgCommaSpace \o BodyRepr)
    ELSE IF ~reply.readOK THEN Failure(ErrUnexpectedEOF)
    ELSE IF ~reply.jsonOK THEN Failure(ErrSyntax)
    ELSE IF Len(reply.choices) = 0 THEN Failure(MsgNoResponse)
    ELSE Result(reply.choices[1])

handleSummaryRequest(r, fs) ==
    LET auth == SummaryAuth(r)
    IN
    IF auth.done THEN Outcome(auth.status, auth.body, auth.events, fs)
    ELSE
    LET dec == SummaryDecode(r)
        evs == auth.events \o dec.events
    IN
    IF dec.done THEN Outcome(dec.status, dec.body, evs, fs)
    ELSE
    LET ai == getAIResponse(Prompt(dec.transcript), r.reply)
    IN
    IF ai.failed
    THEN Outcome(500, Fprintln(ai.err), evs \o ai.events, fs)
    ELSE Outcome(200,
                 SummaryPrefix \o sanitizeInput(ai.content) \o BodySuffix,
                 evs \o ai.events \o <<"sanitizeInput">>, fs)

----------------------------------------------------------------------------
\* The server: a request arrives on a route, then one call of the route's
\* handler serves it.  The handlers share nothing but the temp directory,
\* where every scratch file has a name of its own, so a call is one step.
\* status = 0 marks a request that has arrived and is not served yet.

Idle == route = "none" \/ status # 0

Arrive(rt, r) ==
    /\ Idle
    /\ route' = rt
    /\ req' = r
    /\ status' = 0
    /\ body' = <<>>
    /\ events' = <<>>
    /\ UNCHANGED <<disk, open, nextTmp>>
    /\ UNCHANGED harnessVars
    /\ UNCHANGED startupVars

ReceiveTranscribe ==
    /\ nextTmp <= MaxTmp
    /\ \E r \in UploadRequests : Arrive("transcribe", r)

ReceiveSummarize == \E r \in SummaryRequests : Arrive("summarize", r)

Serve(out) ==
    /\ status' = out.status
    /\ body' = out.body
    /\ events' = out.events
    /\ disk' = out.fs.disk
    /\ open' = out.fs.open
    /\ nextTmp' = out.fs.nextTmp
    /\ UNCHANGED <<route, req>>
    /\ UNCHANGED harnessVars
    /\ UNCHANGED startupVars

UploadHandler ==
    /\ route = "transcribe"
    /\ status = 0
    /\ Serve(uploadHandler(req, FileSystem(disk, open, nextTmp)))

HandleSummaryRequest ==
    /\ route = "summarize"
    /\ status = 0
    /\ Serve(handleSummaryRequest(req, FileSystem(disk, open, nextTmp)))

----------------------------------------------------------------------------
\* Vocabulary of the properties

\* a request has been served and its response written
Served == route # "none" /\ status # 0

CalledIn(evs, e) == \E i \in 1..Len(evs) : evs[i] = e

Called(e) == CalledIn(events, e)

Count(e) == Cardinality({i \in 1..Len(events) : events[i] = e})

\* upload ingestion, body decoding, and the calls to the two providers
IngestionCalls == {"r.FormFile", "os.CreateTemp", "io.Copy", "os.Open"}

ProviderCalls == {"TranscribeFromReader", "client.Do"}

NoneCalled(es) == \A e \in es : ~Called(e)

Authenticated == req.hasClaims /\ req.lookup = "active"

\* s holds sub as a run of consecutive bytes
Contains(s, sub) ==
    \E i \in 0..(Len(s) - Len(sub)) : SubSeq(s, i + 1, i + Len(sub)) = sub

\* s can stand between the quotes of a JSON string literal: no raw control
\* byte, no bare double quote, every backslash starting an escape
RECURSIVE ValidStringContent(_)
ValidStringContent(s) ==
    IF s = <<>> THEN TRUE
    ELSE IF Head(s) < 32 \/ Head(s) = Quote THEN FALSE
    ELSE IF Head(s) = Backslash
    THEN /\ Len(s) >= 2
         /\ Unescape(s[2]) # 0
         /\ ValidStringContent(Tail(Tail(s)))
    ELSE ValidStringContent(Tail(s))

\* the text a success body carries between its prefix and its suffix
Embedded(text, prefix, trailer) ==
    SubSeq(text, Len(prefix) + 1, Len(text) - Len(trailer))

Escapable == {Backslash, LF, TAB, CR, FF}

HasByte(s, cs) == \E i \in 1..Len(s) : s[i] \in cs

----------------------------------------------------------------------------
\* C1: a request to either protected route that carries no session claims is
\* answered 401 {"access": "unauthorized"}, and the handler makes no user
\* lookup, no ingestion call, no body decoding and no provider call for it.
UnauthorizedIsRejectedFirst ==
    (Served /\ ~req.hasClaims) =>
        /\ status = 401
        /\ body = BodyUnauthorized
        /\ ~Called("user.Get")
        /\ NoneCalled(IngestionCalls \cup ProviderCalls \cup {"json.Decode"})

UnauthorizedWitness ==
    /\ Served
    /\ route = "transcribe"
    /\ ~req.hasClaims
    /\ req.lookup = "active"
    /\ status = 401

\* C2: a request with valid claims whose user is banned is answered 403
\* after exactly one user lookup, with no ingestion, decoding or provider
\* call.
BannedIsForbiddenAfterOneLookup ==
    (Served /\ req.hasClaims /\ req.lookup = "banned") =>
        /\ status = 403
        /\ body = BodyForbidden
        /\ Count("user.Get") = 1
        /\ NoneCalled(IngestionCalls \cup ProviderCalls \cup {"json.Decode"})

BannedWitness ==
    /\ Served
    /\ route = "summarize"
    /\ req.hasClaims
    /\ req.lookup = "banned"
    /\ status = 403
    /\ Count("user.Get") = 1

\* C3: once a request is served, no scratch file is left: every handle is
\* closed and the temp directory holds no file of a served request.
ScratchFilesAreRemoved == Served => (open = {} /\ disk = {})

\* C4 as stated: sanitizeInput applied to its own result changes nothing.
SanitizeIsIdempotent == (applied = 2) => (output = previous)

\* C4, amended: sanitizeInput applied to its own result changes nothing
\* exactly when the input holds no backslash, newline, tab, carriage return
\* or form feed; the control bytes it strips and the quotes it passes through stay
\* as they are.
SanitizeIdempotentIffNothingEscaped ==
    (applied = 2) => ((output = previous) <=> ~HasByte(input, Escapable))

SanitizeIdempotentWitness ==
    /\ applied = 2
    /\ HasByte(input, {Ctl})
    /\ HasByte(input, {Quote})
    /\ output = previous
    /\ output # input

\* C5: the text sanitizeInput hands to the /summarize success body is valid
\* content of a JSON string literal, and the body parses as JSON.
SummaryBodyIsValidJSON ==
    (Served /\ route = "summarize" /\ status = 200) =>
        /\ ValidStringContent(Embedded(body, SummaryPrefix, BodySuffix))
        /\ ParseObject(body, FALSE).ok

\* C6: an authenticated upload whose transcription succeeds with text T is
\* answered 200 with a JSON body whose status is "success" and whose
\* transcript, once parsed, is T.
TranscriptFieldEqualsText ==
    (/\ Served
     /\ route = "transcribe"
     /\ Authenticated
     /\ req.form = "ok"
     /\ req.createOK /\ req.copyOK /\ req.openOK /\ req.transcribeOK) =>
        /\ status = 200
        /\ ParseObject(body, FALSE).ok
        /\ Member(ParseObject(body, FALSE), KeyStatus) = ValSuccess
        /\ Member(ParseObject(body, FALSE), KeyTranscript) = req.text

\* C7: an authenticated upload without the uploadfile field, or whose form
\* cannot be parsed, is answered 400 with the error text; no scratch file is
\* created and the transcription provider is not called.
MissingUploadFieldIsBadRequest ==
    [][(/\ route = "transcribe"
        /\ status = 0
        /\ Authenticated
        /\ req.form # "ok") =>
           /\ status' = 400
           /\ body' = Fprintln(FormError(req.form))
           /\ disk' = disk
           /\ nextTmp' = nextTmp
           /\ ~CalledIn(events', "os.CreateTemp")
           /\ ~CalledIn(events', "TranscribeFromReader")]_vars

MissingUploadFieldWitness ==
    /\ Served
    /\ route = "transcribe"
    /\ Authenticated
    /\ req.form = "missing"
    /\ status = 400
    /\ body = Fprintln(ErrMissingFile)

\* C8: an authenticated summarize request whose body cannot be decoded, or
\* whose text is empty or missing, is answered 400 and the completion
\* provider is not called.
EmptyTextIsBadRequest ==
    (/\ Served
     /\ route = "summarize"
     /\ Authenticated
     /\ req.raw \in {ReqTextEmpty, ReqNoText, ReqEmptyObject, ReqTruncated,
                     ReqNotJSON, <<>>}) =>
        /\ status = 400
        /\ ~Called("client.Do")

EmptyTextWitness ==
    /\ Served
    /\ route = "summarize"
    /\ Authenticated
    /\ req.raw = ReqTextEmpty
    /\ req.reply.choices # <<>>
    /\ status = 400

\* C9: a request with valid claims whose user lookup fails is answered 500
\* with a JSON body whose access member is "internal server error"; the ban
\* flag is not read and no ingestion, decoding or provider call is made.
LookupFailureIsInternalError ==
    (Served /\ req.hasClaims /\ req.lookup = "error") =>
        /\ status = 500
        /\ ParseObject(body, FALSE).ok
        /\ Member(ParseObject(body, FALSE), KeyAccess) = ValInternalServerError
        /\ ~Called("usr.Banned")
        /\ NoneCalled(IngestionCalls \cup ProviderCalls \cup {"json.Decode"})

LookupFailureWitness ==
    /\ Served
    /\ route = "transcribe"
    /\ req.hasClaims
    /\ req.lookup = "error"
    /\ status = 500
    /\ Called("user.Get")

\* C10: a summarize request that reaches getAIResponse makes exactly one
\* POST, and the reply to it decides the response: a status other than 200
\* gives 500 with an error text that holds the status code, a 200 reply
\* without choices gives 500 "no response from AI", a 200 reply with choices
\* gives 200 with the first choice's content (sanitized) as the summary; any
\* other reply gives 500.
OnePostDecidesTheSummary ==
    (Served /\ route = "summarize" /\ Called("client.Do")) =>
        LET reply == req.reply
            answered == reply.transportOK /\ reply.code = 200
            decoded == answered /\ reply.readOK /\ reply.jsonOK
        IN  /\ Count("client.Do") = 1
            /\ status \in {200, 500}
            /\ (reply.transportOK /\ reply.code # 200) =>
                   /\ status = 500
                   /\ Contains(body, Decimal(reply.code))
                   /\ Contains(body, MsgUnexpectedStatus)
            /\ (decoded /\ Len(reply.choices) = 0) =>
                   /\ status = 500
                   /\ body = Fprintln(MsgNoResponse)
            /\ (decoded /\ Len(reply.choices) > 0) =>
                   /\ status = 200
                   /\ body = SummaryPrefix
                                 \o sanitizeInput(reply.choices[1])
                                 \o BodySuffix
            /\ (status = 200) => (decoded /\ Len(reply.choices) > 0)

OnePostWitness ==
    /\ Served
    /\ route = "summarize"
    /\ Called("client.Do")
    /\ Len(req.reply.choices) = 2
    /\ req.reply.choices[1] # <<>>
    /\ status = 200

----------------------------------------------------------------------------
\* The sanitizeInput harness: a string is drawn, then sanitizeInput is
\* applied to it and again to its own result.

InitHarness ==
    /\ input \in StringsUpTo(MaxLen)
    /\ output = input
    /\ previous = input
    /\ applied = 0

Sanitize ==
    /\ applied < 2
    /\ output' = sanitizeInput(output)
    /\ previous' = output
    /\ applied' = applied + 1
    /\ UNCHANGED input

InitServer ==
    /\ disk = {}
    /\ open = {}
    /\ nextTmp = 1
    /\ route = "none"
    /\ req = <<>>
    /\ status = 0
    /\ body = <<>>
    /\ events = <<>>

\* os.Getenv(key): the value, and "" for a key the environment lacks
Getenv(e, key) == IF key \in DOMAIN e THEN e[key] ELSE ""

RequiredKeys == {"ASSEMBLY_API_KEY", "GROQ_API_KEY", "CLERK_API_KEY"}

\* the value of a key that is set and not empty
KeyValue(key) == "sk-" \o key

\* the environments main can start in: each key absent, empty, or set
Environments ==
    UNION {[K -> {""}] : K \in SUBSET RequiredKeys} \cup
    UNION {{[k \in K |-> IF k \in F THEN KeyValue(k) ELSE ""] :
               F \in (SUBSET K) \ {{}}} : K \in SUBSET RequiredKeys}

RegisteredRoutes == {"POST /transcribe", "POST /summarize"}

\* the server is up: main sits in http.ListenAndServe
Listening(e) ==
    /\ pc = "serving"
    /\ env = e
    /\ assemblyApiKey = Getenv(e, "ASSEMBLY_API_KEY")
    /\ groqApiKey = Getenv(e, "GROQ_API_KEY")
    /\ clerkKey = Getenv(e, "CLERK_API_KEY")
    /\ routes = RegisteredRoutes
    /\ exitCode = 0

\* the server once main has started it with every key set
Init ==
    /\ InitServer
    /\ input = <<>>
    /\ output = <<>>
    /\ previous = <<>>
    /\ applied = 0
    /\ Listening([k \in RequiredKeys |-> KeyValue(k)])

Next ==
    \/ ReceiveTranscribe
    \/ ReceiveSummarize
    \/ UploadHandler
    \/ HandleSummaryRequest

Spec == Init /\ [][Next]_vars

InitSanitize ==
    /\ InitHarness
    /\ InitServer
    /\ Listening([k \in RequiredKeys |-> KeyValue(k)])

NextSanitize == Sanitize /\ UNCHANGED serverVars /\ UNCHANGED startupVars

SpecSanitize == InitSanitize /\ [][NextSanitize]_vars

----------------------------------------------------------------------------
\* main, statement by statement, and then the server it starts

\* os.Exit(code)
Exit(code) ==
    /\ pc' = "exited"
    /\ exitCode' = code

\* godotenv.Load(): the .env file is read into the environment, or cannot be
LoadDotenv ==
    /\ pc = "load"
    /\ \E loaded \in BOOLEAN :
          IF loaded THEN pc' = "assembly" /\ UNCHANGED exitCode
          ELSE Exit(1)
    /\ UNCHANGED <<env, assemblyApiKey, groqApiKey, clerkKey, routes>>
    /\ UNCHANGED <<serverVars, harnessVars>>

ReadAssemblyKey ==
    /\ pc = "assembly"
    /\ assemblyApiKey' = Getenv(env, "ASSEMBLY_API_KEY")
    /\ IF assemblyApiKey' = "" THEN Exit(1)
       ELSE pc' = "groq" /\ UNCHANGED exitCode
    /\ UNCHANGED <<env, groqApiKey, clerkKey, routes>>
    /\ UNCHANGED <<serverVars, harnessVars>>

\* the GROQ_API_KEY block without its test for an empty key
ReadGroqKeyUnchecked ==
    /\ pc = "groq"
    /\ groqApiKey' = Getenv(env, "GROQ_API_KEY")
    /\ pc' = "clerk"
    /\ UNCHANGED <<env, assemblyApiKey, clerkKey, routes, exitCode>>
    /\ UNCHANGED <<serverVars, harnessVars>>

ReadGroqKey ==
    /\ pc = "groq"
    /\ groqApiKey' = Getenv(env, "GROQ_API_KEY")
    /\ IF groqApiKey' = "" THEN Exit(1)
       ELSE pc' = "clerk" /\ UNCHANGED exitCode
    /\ UNCHANGED <<env, assemblyApiKey, clerkKey, routes>>
    /\ UNCHANGED <<serverVars, harnessVars>>

\* clerkApiKey is a local of main; clerk.SetKey stores it
ReadClerkKey ==
    /\ pc = "clerk"
    /\ IF Getenv(env, "CLERK_API_KEY") = ""
       THEN Exit(1) /\ UNCHANGED clerkKey
       ELSE /\ clerkKey' = Getenv(env, "CLERK_API_KEY")
            /\ pc' = "routes"
            /\ UNCHANGED exitCode
    /\ UNCHANGED <<env, assemblyApiKey, groqApiKey, routes>>
    /\ UNCHANGED <<serverVars, harnessVars>>

RegisterRoutes ==
    /\ pc = "routes"
    /\ routes' = RegisteredRoutes
    /\ pc' = "listen"
    /\ UNCHANGED <<env, assemblyApiKey, groqApiKey, clerkKey, exitCode>>
    /\ UNCHANGED <<serverVars, harnessVars>>

\* http.ListenAndServe: it serves, or it returns at once (the address is
\* taken) and main, which drops the error, returns with status 0
ListenAndServe ==
    /\ pc = "listen"
    /\ \E bound \in BOOLEAN :
          IF bound THEN pc' = "serving" /\ UNCHANGED exitCode
          ELSE Exit(0)
    /\ UNCHANGED <<env, assemblyApiKey, groqApiKey, clerkKey, routes>>
    /\ UNCHANGED <<serverVars, harnessVars>>

InitStartup ==
    /\ InitServer
    /\ input = <<>>
    /\ output = <<>>
    /\ previous = <<>>
    /\ applied = 0
    /\ pc = "load"
    /\ env \in Environments
    /\ assemblyApiKey = ""
    /\ groqApiKey = ""
    /\ clerkKey = ""
    /\ routes = {}
    /\ exitCode = 0

\* requests are served only while main sits in ListenAndServe
ServeRequests == pc = "serving" /\ Next

NextStartup ==
    \/ LoadDotenv
    \/ ReadAssemblyKey
    \/ ReadGroqKey
    \/ ReadClerkKey
    \/ RegisterRoutes
    \/ ListenAndServe
    \/ ServeRequests

SpecStartup == InitStartup /\ [][NextStartup]_vars

----------------------------------------------------------------------------
\* a required key is absent from the environment or empty
KeyMissing == \E k \in RequiredKeys : Getenv(env, k) = ""

\* main has stopped starting up: the process is gone or the server is up
StartupOver == pc \in {"exited", "serving"}

\* C11: with a required key absent or empty no route is ever registered and
\* the server never listens, and once startup is over the process has exited
\* with a status other than 0; the server listens only with all three keys
\* set and stored; and while it listens the two provider keys are not
\* written.
StartupIsAllOrNothing ==
    /\ [](KeyMissing =>
             /\ routes = {}
             /\ pc \notin {"listen", "serving"}
             /\ StartupOver => (pc = "exited" /\ exitCode # 0))
    /\ []((pc = "serving") =>
             /\ ~KeyMissing
             /\ assemblyApiKey = env["ASSEMBLY_API_KEY"]
             /\ groqApiKey = env["GROQ_API_KEY"]
             /\ clerkKey = env["CLERK_API_KEY"]
             /\ routes = RegisteredRoutes)
    /\ [][(pc = "serving") =>
             /\ assemblyApiKey' = assemblyApiKey
             /\ groqApiKey' = groqApiKey]_vars

\* main got past the first key, found the second one empty and exited
StartupWitness ==
    /\ pc = "exited"
    /\ exitCode = 1
    /\ assemblyApiKey # ""
    /\ "GROQ_API_KEY" \in DOMAIN env
    /\ Getenv(env, "GROQ_API_KEY") = ""
    /\ routes = {}

====
